---- MODULE Spec2Model ----
(***************************************************************************)
(* hlhook: a typed facade over the dobby-rs hooking engine.                *)
(*                                                                         *)
(* The model holds the engine's view of the program image (which function  *)
(* entries are patched), the trampoline slots declared by make_trampoline!,*)
(* and one installing thread whose four-argument hook! runs in two steps   *)
(* (install_hook, then the map closure that writes the slot) while other   *)
(* threads may call any function of the image.                             *)
(***************************************************************************)
EXTENDS Integers, Sequences, FiniteSets, TLC

\* Number of functions in the program image (their addresses are 1..NumFuncs).
NumFuncs == 3

\* Number of hook! invocations in one run.
MaxHooks == 2

VARIABLES
    patched,      \* engine: patched[f] = address f's entry jumps to, or NoAddr
    slot,         \* slot[name] = contents of the static declared by make_trampoline!
    pc,           \* installing thread: "idle", or "map" between install_hook and .map
    pending,      \* the four-argument hook! in progress (its locals)
    last,         \* the last completed operation and what it returned
    aborted,      \* a thread has panicked
    panicMsg,     \* the panic's message, as a sequence of words
    installedVia, \* history: the slot named by the hook! that redirected f
    lastInstall,  \* history: address the engine returned to the last completed
                  \*          successful four-argument hook! naming the slot
    hooks         \* hook! invocations started so far

vars == <<patched, slot, pc, pending, last, aborted, panicMsg, installedVia,
          lastInstall, hooks>>

-----------------------------------------------------------------------------
(* Values *)

Funcs == 1 .. NumFuncs

NoAddr == 0

SlotNames == {"ORIGINAL_A", "ORIGINAL_B"}

NoSlot == "none"

\* The signature named at the call site: the $t of hook! and make_trampoline!.
Sig == "fn() -> u8"

\* Option<T>
None == [some |-> FALSE, val |-> NoAddr]

Some(v) == [some |-> TRUE, val |-> v]

\* Result<T, DobbyHookError>
Ok(v) == [ok |-> TRUE, val |-> v, err |-> "none"]

Err(e) == [ok |-> FALSE, val |-> NoAddr, err |-> e]

Unit == "()"

\* A function item as the caller names it (target, add_one): not yet a fn pointer.
FnItem(a) == [sig |-> "fn item", addr |-> a]

\* `$target as $t`: the cast to the fn pointer type named at the call site.
CastTo(t, f) == [sig |-> t, addr |-> f.addr]

\* std::mem::transmute_copy(&target): the typed value's bits, as an Address.
TransmuteToAddr(f) == f.addr

\* std::mem::transmute_copy(&trampoline_addr): the Address's bits, typed as F.
TransmuteFromAddr(t, a) == [sig |-> t, addr |-> a]

-----------------------------------------------------------------------------
(* The engine (dobby_rs): hook(target, replacement) -> Result<Address, _> *)

\* Functions whose prologue is too short to patch.
Unhookable == {1}

\* Failures the engine can meet on a hookable, unhooked target.
Faults == {"none", "AllocFailure", "ProtFailure"}

\* The trampoline the engine generates for target t.
TrampOf(t) == NumFuncs + t

EngineHook(p, target_addr, replacement_addr, fault) ==
    IF target_addr \in Unhookable
    THEN [res |-> Err("NotHookable"), patched |-> p]
    ELSE IF p[target_addr] # NoAddr
    THEN [res |-> Err("AlreadyHooked"), patched |-> p]
    ELSE IF fault # "none"
    THEN [res |-> Err(fault), patched |-> p]
    ELSE [res |-> Ok(TrampOf(target_addr)),
          patched |-> [p EXCEPT ![target_addr] = replacement_addr]]

\* The engine meets a fault only on a target it would otherwise patch.
FaultsAt(p, target_addr) ==
    IF target_addr \in Unhookable \/ p[target_addr] # NoAddr
    THEN {"none"} ELSE Faults

RECURSIVE Follow(_, _, _)
Follow(p, a, fuel) ==
    IF a \notin Funcs THEN a - NumFuncs
    ELSE IF p[a] = NoAddr THEN a
    ELSE IF fuel = 0 THEN NoAddr
    ELSE Follow(p, p[a], fuel - 1)

\* The function whose own body runs when address a is called: a trampoline
\* enters its target's original body, a patched entry jumps on; NoAddr when
\* the jumps never end.
Lands(p, a) == Follow(p, a, NumFuncs)

-----------------------------------------------------------------------------
(* The facade *)

InstallHookSwapped(target, replacement, p, fault) ==
    LET target_addr == TransmuteToAddr(target)
        replacement_addr == TransmuteToAddr(replacement)
        e == EngineHook(p, replacement_addr, target_addr, fault)
    IN  [ret |-> IF e.res.ok
                 THEN Ok(TransmuteFromAddr(target.sig, e.res.val))
                 ELSE Err(e.res.err),
         patched |-> e.patched,
         calls |-> <<[target |-> replacement_addr, replacement |-> target_addr,
                      res |-> e.res]>>]

InstallHookWrapped(target, replacement, p, fault) ==
    LET target_addr == TransmuteToAddr(target)
        replacement_addr == TransmuteToAddr(replacement)
        e == EngineHook(p, target_addr, replacement_addr, fault)
    IN  [ret |-> IF e.res.ok
                 THEN Ok(TransmuteFromAddr(target.sig, e.res.val))
                 ELSE Err("HookFailed"),
         patched |-> e.patched,
         calls |-> <<[target |-> target_addr, replacement |-> replacement_addr,
                      res |-> e.res]>>]

\* install_hook: two transmute_copy, one engine call, `?`, one transmute_copy.
\* calls is the log of the engine calls made.
InstallHook(target, replacement, p, fault) ==
    LET target_addr == TransmuteToAddr(target)
        replacement_addr == TransmuteToAddr(replacement)
        e == EngineHook(p, target_addr, replacement_addr, fault)
    IN  [ret |-> IF e.res.ok
                 THEN Ok(TransmuteFromAddr(target.sig, e.res.val))
                 ELSE Err(e.res.err),
         patched |-> e.patched,
         calls |-> <<[target |-> target_addr, replacement |-> replacement_addr,
                      res |-> e.res]>>]

HookMapAlways(res, cell) ==
    [ret |-> IF res.ok THEN Ok(Unit) ELSE Err(res.err),
     cell |-> IF res.ok THEN Some(res.val) ELSE None]

HookMapNever(res, cell) ==
    [ret |-> IF res.ok THEN Ok(Unit) ELSE Err(res.err),
     cell |-> cell]

HookMapIfEmpty(res, cell) ==
    [ret |-> IF res.ok THEN Ok(Unit) ELSE Err(res.err),
     cell |-> IF res.ok /\ ~cell.some THEN Some(res.val) ELSE cell]

\* hook!, four arguments: .map(|t_ptr| { $trampoline = Some(t_ptr); })
HookMap(res, cell) ==
    [ret |-> IF res.ok THEN Ok(Unit) ELSE Err(res.err),
     cell |-> IF res.ok THEN Some(res.val) ELSE cell]

\* The message of .expect("trampoline not set").
ExpectMsg == <<"trampoline", "not", "set">>

GetTrampolineOrDefault(name, cell) ==
    [kind |-> "value",
     val |-> IF cell.some THEN cell.val ELSE TransmuteFromAddr(Sig, NoAddr),
     msg |-> <<>>]

GetTrampolineNamed(name, cell) ==
    IF cell.some
    THEN [kind |-> "value", val |-> cell.val, msg |-> <<>>]
    ELSE [kind |-> "panic", val |-> NoAddr, msg |-> <<name>> \o <<"not", "set">>]

\* get_trampoline!: $name.expect("trampoline not set")
GetTrampoline(name, cell) ==
    IF cell.some
    THEN [kind |-> "value", val |-> cell.val, msg |-> <<>>]
    ELSE [kind |-> "panic", val |-> NoAddr, msg |-> ExpectMsg]

-----------------------------------------------------------------------------
(* The calling program *)

\* The slot a function's body reads with get_trampoline! when it runs as a
\* replacement (add_one reads ORIGINAL), or NoSlot when it reads none.
ReadsSlot(f) ==
    IF f % 3 = 1 THEN "ORIGINAL_A"
    ELSE IF f % 3 = 2 THEN "ORIGINAL_B"
    ELSE NoSlot

\* No get_trampoline! was evaluated.
NoGot == [kind |-> "none", val |-> NoAddr, msg |-> <<>>]

NoPending ==
    [name |-> NoSlot, target |-> NoAddr, replacement |-> NoAddr,
     res |-> Err("none"), calls |-> <<>>,
     prePatched |-> [f \in Funcs |-> NoAddr],
     preSlot |-> [n \in SlotNames |-> None],
     preLands |-> NoAddr]

NoLast ==
    [op |-> "none", name |-> NoSlot, target |-> NoAddr, replacement |-> NoAddr,
     ret |-> Err("none"), calls |-> <<>>,
     prePatched |-> [f \in Funcs |-> NoAddr],
     preSlot |-> [n \in SlotNames |-> None],
     preLands |-> NoAddr, got |-> NoGot,
     ran |-> NoAddr, reached |-> NoAddr]

Init ==
    /\ patched = [f \in Funcs |-> NoAddr]
    /\ slot = [n \in SlotNames |-> None]
    /\ pc = "idle"
    /\ pending = NoPending
    /\ last = NoLast
    /\ aborted = FALSE
    /\ panicMsg = <<>>
    /\ installedVia = [f \in Funcs |-> NoSlot]
    /\ lastInstall = [n \in SlotNames |-> NoAddr]
    /\ hooks = 0

\* hook!($t, $target, $replacement)
Hook3(t, r, fault) ==
    /\ pc = "idle" /\ ~aborted /\ hooks < MaxHooks
    /\ fault \in FaultsAt(patched, t)
    /\ LET h == InstallHook(CastTo(Sig, FnItem(t)), CastTo(Sig, FnItem(r)),
                            patched, fault)
       IN  /\ patched' = h.patched
           /\ last' = [NoLast EXCEPT !.op = "hook3", !.target = t,
                          !.replacement = r, !.ret = h.ret, !.calls = h.calls,
                          !.prePatched = patched, !.preSlot = slot,
                          !.preLands = Lands(patched, t)]
    /\ hooks' = hooks + 1
    /\ UNCHANGED <<slot, pc, pending, aborted, panicMsg, installedVia, lastInstall>>

\* hook!($t, $trampoline, $target, $replacement), first step: install_hook(..)
Hook4Call(name, t, r, fault) ==
    /\ pc = "idle" /\ ~aborted /\ hooks < MaxHooks
    /\ fault \in FaultsAt(patched, t)
    /\ LET h == InstallHook(CastTo(Sig, FnItem(t)), CastTo(Sig, FnItem(r)),
                            patched, fault)
       IN  /\ patched' = h.patched
           /\ pending' = [name |-> name, target |-> t, replacement |-> r,
                          res |-> h.ret, calls |-> h.calls,
                          prePatched |-> patched, preSlot |-> slot,
                          preLands |-> Lands(patched, t)]
           /\ installedVia' =
                 [f \in Funcs |->
                     IF patched[f] = NoAddr /\ h.patched[f] # NoAddr
                     THEN name ELSE installedVia[f]]
    /\ pc' = "map"
    /\ hooks' = hooks + 1
    /\ UNCHANGED <<slot, last, aborted, panicMsg, lastInstall>>

\* hook!, four arguments, second step: the closure given to .map
Hook4Map ==
    /\ pc = "map"
    /\ LET m == HookMap(pending.res, slot[pending.name])
           e == pending.calls[Len(pending.calls)].res
       IN  /\ slot' = [slot EXCEPT ![pending.name] = m.cell]
           /\ last' = [NoLast EXCEPT !.op = "hook4", !.name = pending.name,
                          !.target = pending.target,
                          !.replacement = pending.replacement,
                          !.ret = m.ret, !.calls = pending.calls,
                          !.prePatched = pending.prePatched,
                          !.preSlot = pending.preSlot,
                          !.preLands = pending.preLands]
           /\ lastInstall' = IF e.ok
                             THEN [lastInstall EXCEPT ![pending.name] = e.val]
                             ELSE lastInstall
    /\ pc' = "idle"
    /\ pending' = NoPending
    /\ UNCHANGED <<patched, aborted, panicMsg, installedVia, hooks>>

\* get_trampoline!($name) on the installing thread
Get(name) ==
    /\ pc = "idle" /\ ~aborted
    /\ LET g == GetTrampoline(name, slot[name])
       IN  /\ last' = [NoLast EXCEPT !.op = "get", !.name = name, !.got = g,
                          !.preSlot = slot, !.prePatched = patched]
           /\ aborted' = (g.kind = "panic")
           /\ panicMsg' = g.msg
    /\ UNCHANGED <<patched, slot, pc, pending, installedVia, lastInstall, hooks>>

\* Some thread calls function t. The body that runs reads its slot, if it
\* reads one, and calls what it got (add_one: get_trampoline!(ORIGINAL)()).
CallTarget(t) ==
    /\ ~aborted
    /\ Lands(patched, t) # NoAddr
    /\ LET f == Lands(patched, t)
           n == ReadsSlot(f)
           g == IF f # t /\ n # NoSlot
                THEN GetTrampoline(n, slot[n])
                ELSE NoGot
       IN  /\ last' = [NoLast EXCEPT !.op = "call", !.target = t,
                          !.name = IF f # t THEN n ELSE NoSlot,
                          !.got = g, !.ran = f,
                          !.preSlot = slot, !.prePatched = patched,
                          !.reached = IF f # t /\ n # NoSlot /\ g.kind = "value"
                                      THEN Lands(patched, g.val.addr)
                                      ELSE NoAddr]
           /\ aborted' = (g.kind = "panic")
           /\ panicMsg' = g.msg
    /\ UNCHANGED <<patched, slot, pc, pending, installedVia, lastInstall, hooks>>

Next ==
    \/ \E t \in Funcs, r \in Funcs, fault \in Faults : Hook3(t, r, fault)
    \/ \E name \in SlotNames, t \in Funcs, r \in Funcs, fault \in Faults :
          Hook4Call(name, t, r, fault)
    \/ Hook4Map
    \/ \E name \in SlotNames : Get(name)
    \/ \E t \in Funcs : CallTarget(t)

Spec == Init /\ [][Next]_vars

-----------------------------------------------------------------------------
(* Properties *)

\* The engine's answer to the one call a completed hook! made.
EngineRes(op) == op.calls[Len(op.calls)].res

Mentions(msg, word) == \E i \in 1 .. Len(msg) : msg[i] = word

HookOps == {"hook3", "hook4"}

\* C1: when the four-argument hook! succeeds with engine trampoline A it
\* returns Ok(()), the slot holds exactly A typed as the call site's
\* signature, get_trampoline! on the slot yields A, and calling that runs
\* what the target ran before the install, not the replacement. A later
\* get_trampoline! on a slot yields the address the engine gave the last
\* successful install naming it.
C1_SlotRoundTrip ==
    /\ (last.op = "hook4" /\ Len(last.calls) > 0 /\ EngineRes(last).ok) =>
          LET A == EngineRes(last).val
              g == GetTrampoline(last.name, slot[last.name])
          IN  /\ last.ret = [ok |-> TRUE, val |-> "()", err |-> "none"]
              /\ slot[last.name].some
              /\ slot[last.name].val = [sig |-> Sig, addr |-> A]
              /\ g.kind = "value"
              /\ g.val.addr = A
              /\ Lands(patched, g.val.addr) = last.preLands
              /\ Lands(patched, g.val.addr) # Lands(patched, last.replacement)
    /\ (last.op = "get" /\ lastInstall[last.name] # NoAddr) =>
          /\ last.got.kind = "value"
          /\ last.got.val.addr = lastInstall[last.name]

C1_Witness ==
    /\ last.op = "get"
    /\ last.got.kind = "value"
    /\ lastInstall[last.name] = last.got.val.addr
    /\ \E t \in Funcs : patched[t] # NoAddr /\ TrampOf(t) = last.got.val.addr

\* C2: a four-argument hook! whose engine call failed has written no slot
\* and left every function's redirection as it was before the call.
C2_FailedInstallNoWrite ==
    (pc = "idle" /\ last.op = "hook4" /\ ~EngineRes(last).ok) =>
        /\ slot = last.preSlot
        /\ patched = last.prePatched
        /\ ~last.ret.ok

C2_Witness ==
    /\ pc = "idle" /\ last.op = "hook4" /\ ~EngineRes(last).ok
    /\ ~last.preSlot[last.name].some
    /\ ~slot[last.name].some
    /\ EngineRes(last).err = "ProtFailure"

\* C3: get_trampoline! on a slot no successful install has written panics:
\* it yields no callable and no error value, on the installing thread and
\* in a replacement's body alike.
C3_EmptySlotAbort ==
    /\ \A n \in SlotNames :
          lastInstall[n] = NoAddr =>
              /\ ~slot[n].some
              /\ GetTrampoline(n, slot[n]).kind = "panic"
    /\ (last.op \in {"get", "call"} /\ last.name # NoSlot
            /\ lastInstall[last.name] = NoAddr) =>
          /\ aborted
          /\ last.got.kind = "panic"
          /\ last.got.val = NoAddr
          /\ last.reached = NoAddr

C3_Witness ==
    /\ last.op = "get" /\ lastInstall[last.name] = NoAddr /\ aborted
    /\ \E n \in SlotNames : lastInstall[n] # NoAddr

\* C4, as claimed: the panic of get_trampoline! on an empty slot mentions
\* the slot's name.
C4_DiagnosticNamesSlot ==
    (last.op = "get" /\ last.got.kind = "panic") => Mentions(panicMsg, last.name)

\* C4, amended: the panic of get_trampoline! on an empty slot carries the
\* fixed message "trampoline not set" whatever the slot; it mentions no slot
\* name, so two empty slots give the same message.
C4_DiagnosticIsFixed ==
    /\ aborted =>
          /\ panicMsg = <<"trampoline", "not", "set">>
          /\ \A n \in SlotNames : ~Mentions(panicMsg, n)
    /\ \A n1, n2 \in SlotNames :
          (~slot[n1].some /\ ~slot[n2].some) =>
              GetTrampoline(n1, slot[n1]).msg = GetTrampoline(n2, slot[n2]).msg

C4_Witness ==
    /\ last.op = "get" /\ aborted /\ last.name = "ORIGINAL_B"
    /\ ~slot["ORIGINAL_A"].some

\* C5: every slot starts empty, and no step of any operation empties a
\* populated slot.
C5_SlotMonotone ==
    /\ \A n \in SlotNames : ~slot[n].some
    /\ [][\A n \in SlotNames : slot[n].some => slot'[n].some]_vars

C5_Witness ==
    /\ pc = "idle" /\ last.op = "hook4" /\ ~last.ret.ok
    /\ last.preSlot[last.name].some
    /\ slot[last.name].some

\* C6: install_hook and both arities of hook! make exactly one engine call
\* and return an error exactly when the engine did, and then the engine's
\* own error value.
C6_ErrorTransparency ==
    /\ last.op \in HookOps =>
          /\ Len(last.calls) = 1
          /\ last.ret.ok <=> last.calls[1].res.ok
          /\ ~last.calls[1].res.ok =>
                /\ last.ret.err = last.calls[1].res.err
                /\ last.ret.val = NoAddr
    /\ pc = "map" =>
          /\ Len(pending.calls) = 1
          /\ pending.res.ok <=> pending.calls[1].res.ok
          /\ ~pending.calls[1].res.ok => pending.res.err = pending.calls[1].res.err

C6_Witness ==
    /\ last.op = "hook4" /\ ~last.ret.ok /\ last.ret.err = "AllocFailure"
    /\ hooks = MaxHooks

\* C7, as claimed: while a four-argument hook! that redirected its target
\* is in progress, a call of the target whose replacement reads the named
\* slot never panics.
C7_InstallPublishAtomic ==
    (pc = "map" /\ pending.res.ok /\ last.op = "call"
        /\ last.target = pending.target /\ last.name = pending.name) => ~aborted

\* C7, amended: the four-argument hook! redirects the target first and
\* writes the slot in a later step. A target redirected by a four-argument
\* hook! has its slot populated except between those two steps of that very
\* hook!, where other threads see the target redirected and the slot empty.
C7_WindowOnlyDuringInstall ==
    \A t \in Funcs :
        (installedVia[t] # NoSlot /\ ~slot[installedVia[t]].some) =>
            /\ pc = "map"
            /\ pending.target = t
            /\ pending.name = installedVia[t]
            /\ pending.res.ok

C7_Witness ==
    /\ pc = "idle" /\ last.op = "call" /\ ~aborted
    /\ installedVia[last.target] # NoSlot
    /\ last.name = installedVia[last.target]
    /\ last.got.kind = "value"

\* C8: install_hook hands the engine the target's address as target and the
\* replacement's as replacement; after a successful install the target's
\* entry jumps to the replacement, a call of the target runs what a call of
\* the replacement runs, and the replacement's own entry is as it was.
C8_Redirection ==
    last.op \in HookOps =>
        /\ \A i \in 1 .. Len(last.calls) :
              /\ last.calls[i].target = last.target
              /\ last.calls[i].replacement = last.replacement
        /\ (pc = "idle" /\ last.ret.ok) =>
              /\ patched[last.target] = last.replacement
              /\ Lands(patched, last.target) = Lands(patched, last.replacement)
              /\ last.replacement # last.target =>
                    patched[last.replacement] = last.prePatched[last.replacement]

C8_Witness ==
    /\ pc = "idle" /\ last.op = "hook3" /\ last.ret.ok
    /\ last.replacement # last.target
    /\ patched[last.replacement] = NoAddr
    /\ Lands(patched, last.target) = last.replacement

\* C9: a hook! on a target that is already hooked returns the engine's
\* already-hooked error, leaves the target redirected to the first
\* replacement and writes no slot: a slot holding the first install's
\* trampoline still holds it.
C9_DoubleInstall ==
    (pc = "idle" /\ last.op \in HookOps /\ last.prePatched[last.target] # NoAddr) =>
        /\ ~last.ret.ok
        /\ last.ret.err = "AlreadyHooked"
        /\ patched[last.target] = last.prePatched[last.target]
        /\ slot = last.preSlot
        /\ \A n \in SlotNames :
              (installedVia[last.target] = n /\ lastInstall[n] = TrampOf(last.target)) =>
                  slot[n] = [some |-> TRUE,
                             val |-> [sig |-> Sig, addr |-> TrampOf(last.target)]]

C9_Witness ==
    /\ pc = "idle" /\ last.op = "hook4"
    /\ last.prePatched[last.target] # NoAddr
    /\ last.replacement # last.prePatched[last.target]
    /\ installedVia[last.target] = last.name
    /\ slot[last.name].some
    /\ slot[last.name].val.addr = TrampOf(last.target)

\* C10: a populated slot holds the trampoline of the last completed
\* successful four-argument hook! naming it, whatever it held before; a
\* replacement that reads the slot reaches the original of that install's
\* target, which need not be the target the replacement was installed on.
C10_LastWriterWins ==
    /\ \A n \in SlotNames :
          /\ slot[n].some => slot[n].val.addr = lastInstall[n]
          /\ lastInstall[n] # NoAddr => slot[n].some
    /\ (last.op = "call" /\ last.name # NoSlot /\ last.got.kind = "value") =>
          /\ last.got.val.addr = lastInstall[last.name]
          /\ last.reached = lastInstall[last.name] - NumFuncs

C10_Witness ==
    /\ last.op = "call" /\ last.got.kind = "value"
    /\ installedVia[last.target] = last.name
    /\ last.reached # last.target
    /\ last.reached # NoAddr

====
